---- MODULE Spec2Model ----
(***************************************************************************)
(* Model of groq_cli.py: one process, one chat exchange.                   *)
(*                                                                         *)
(* The process is followed from interpreter start (module import, which    *)
(* constructs the Groq client and the rich Console) through click's        *)
(* option parsing, the body of chat(), its except handler, and the exit    *)
(* of click's standalone main.  Everything the program writes to the       *)
(* terminal is recorded, in order, in `console`.                           *)
(*                                                                         *)
(* Library behaviour the program relies on is modelled at the call sites:  *)
(*   - click.Choice(case_sensitive=False): compares lower-cased values,    *)
(*     hands the table's own key to the callback, and ends the process     *)
(*     with a usage error (exit code 2) when nothing matches;              *)
(*   - a click option with prompt=...: asks on the terminal when the       *)
(*     option is omitted; an aborted prompt ends the process (exit 1);     *)
(*   - click's standalone main: exit code 0 when the callback returns, an  *)
(*     exception leaving the callback is an uncaught traceback (exit 1);   *)
(*   - rich Console.print / Panel with a str: console markup is            *)
(*     interpreted (markup=True is the Console default): a style tag is    *)
(*     consumed and not shown, a closing tag with nothing to close raises  *)
(*     MarkupError.  Markdown(...) does not interpret console markup.      *)
(* Exceptions are Exception subclasses; signals (KeyboardInterrupt) are    *)
(* not part of the model.                                                  *)
(***************************************************************************)
EXTENDS Integers, Sequences, FiniteSets, TLC

\* ------------------------------------------------------------------------
\* Bounds
\* ------------------------------------------------------------------------

\* Largest number of chunks a stream delivers before it must end or fail.
MaxFrags == 3

\* ------------------------------------------------------------------------
\* Values
\* ------------------------------------------------------------------------

\* Python's None (option omitted on the command line, absent content).
None == "<None>"

\* Marks an interactive prompt that was aborted (EOF / no terminal).
Aborted == "<Aborted>"

\* Static alias table, short alias -> vendor model identifier.
MODEL_ALIASES ==
    [a \in {"l3-8", "l3-70", "ge", "l2-70", "mi"} |->
        CASE a = "l3-8"  -> "llama3-8b-8192"
          [] a = "l3-70" -> "llama3-70b-8192"
          [] a = "ge"    -> "gemma-7b-it"
          [] a = "l2-70" -> "llama2-70b-4096"
          [] a = "mi"    -> "mixtral-8x7b-32768"]

DEFAULT_MODEL == "l3-70"

get_models == DOMAIN MODEL_ALIASES

\* Static alias table, short alias -> prompt file path.
PATH_ALIASES ==
    [a \in {"def", "cli"} |->
        CASE a = "def" -> "prompts/prompt_default.md"
          [] a = "cli" -> "prompts/cli_helper.md"]

DEFAULT_PROMPT == "def"

get_prompts == DOMAIN PATH_ALIASES

\* Values given to --model / --prompt / --message on the command line
\* (None: the flag is omitted).
ModelArgs == {"l3-8", "mi", "L3-70", "gpt-4", None}
PromptArgs == {"cli", "DEF", "sys", None}
MessageArgs == {"What is 2+2?", None}

\* What the user may answer to the interactive "User" prompt.
TypedMessages == {"hi", Aborted}

\* State of a prompt file on disk: its text, or why it cannot be read.
Missing == "<FileNotFoundError>"
Unreadable == "<PermissionError>"
FileStates == {"Hello", Missing, Unreadable}
Paths == {PATH_ALIASES[a] : a \in DOMAIN PATH_ALIASES}

\* Content of one streamed chunk's delta (None: absent), or of the single
\* response's message.
Contents == {"Hel", "lo", "", None, "[i]", "[/INST]"}

\* A chunk or response whose `choices` list is empty.
NoChoices == "<no choices>"

\* str(e) of the exceptions the vendor call or the stream can raise.
AuthErrorText == "Error code: 401 - Invalid API Key"
ApiErrorTexts ==
    {"Connection error.", AuthErrorText, "Error code: 400 - unexpected [/INST]"}

IndexErrorText == "list index out of range"
ReadErrorText == "[Errno 13] Permission denied"
GroqErrorText == "The api_key client option must be set"
KeyErrorText == "KeyError"

\* str of the MarkupError rich raises for a closing tag with nothing open:
\* the message quotes the offending tag.
MarkupErrorText == "closing tag '[/INST]' at position 0 doesn't match any open tag"

\* ------------------------------------------------------------------------
\* Pure helpers
\* ------------------------------------------------------------------------

\* str.lower() on the strings that occur as option values or table keys.
Lower(s) ==
    CASE s = "L3-70" -> "l3-70"
      [] s = "DEF"   -> "def"
      [] OTHER       -> s

\* Variant of ChoiceConvert: no validation, the value goes through as typed.
ChoiceConvert_AcceptAny(choices, value) == value

\* click.Choice(choices, case_sensitive=False).convert: the choice whose
\* lower-cased form equals the lower-cased value, or None for "no match"
\* (click then fails the invocation with a usage error).
ChoiceConvert(choices, value) ==
    IF \E c \in choices : Lower(c) = Lower(value)
    THEN CHOOSE c \in choices : Lower(c) = Lower(value)
    ELSE None

\* The value click passes for an option: the flag's value or its default.
OptionValue(arg, default) == IF arg = None THEN default ELSE arg

\* Python's `x or ""`.
OrEmpty(x) == IF x = None THEN "" ELSE x

\* Text holding a closing markup tag that matches no open tag.
HasStrayClosingTag(s) ==
    s \in {"[/INST]", "Error code: 400 - unexpected [/INST]", MarkupErrorText}

\* rich.markup.render as applied by Console.print / Panel to a str:
\* ok = FALSE when MarkupError is raised, otherwise `text` is what shows.
RenderMarkup(s) ==
    IF HasStrayClosingTag(s) THEN [ok |-> FALSE, text |-> MarkupErrorText]
    ELSE IF s = "[i]" THEN [ok |-> TRUE, text |-> ""]
    ELSE [ok |-> TRUE, text |-> s]

\* One thing written to the terminal.
Item(kind, title, body) == [kind |-> kind, title |-> title, body |-> body]

\* Number of items of a kind in a console sequence.
Count(seq, kind) == Cardinality({i \in DOMAIN seq : seq[i].kind = kind})

\* Concatenation of a sequence of strings is kept as the sequence of its
\* non-empty parts (TLA+ strings are atomic in TLC).
RECURSIVE NonEmptyParts(_)
NonEmptyParts(seq) ==
    IF seq = << >> THEN << >>
    ELSE IF Head(seq) = "" THEN NonEmptyParts(Tail(seq))
    ELSE << Head(seq) >> \o NonEmptyParts(Tail(seq))

\* ------------------------------------------------------------------------
\* State
\* ------------------------------------------------------------------------

VARIABLES
    pc,             \* position of the process
    keyPresent,     \* GROQ_API_KEY is set in the environment
    modelArg,       \* --model as typed (None: omitted)
    promptArg,      \* --prompt as typed (None: omitted)
    messageArg,     \* --message as typed (None: omitted)
    stream_mode,    \* --stream-mode
    fs,             \* prompt file path -> FileStates
    clientAuth,     \* the constructed client holds a credential
    model,          \* chat()'s parameter `model`
    prompt,         \* chat()'s parameter `prompt`
    message,        \* chat()'s parameter `message`
    model_name,     \* local of chat()
    system_prompt,  \* local of chat()
    requests,       \* completion requests issued, in order
    completion,     \* what create() returned: "none", "object", "stream"
    response,       \* content of the non-streamed response object
    received,       \* delta contents of the chunks received so far
    exc,            \* str(e) of the exception being handled, or None
    console,        \* everything written to the terminal, in order
    exitCode        \* process exit code, -1 while running

vars == << pc, keyPresent, modelArg, promptArg, messageArg, stream_mode, fs,
           clientAuth, model, prompt, message, model_name, system_prompt,
           requests, completion, response, received, exc, console, exitCode >>

inputs == << keyPresent, modelArg, promptArg, messageArg, stream_mode, fs >>

Init ==
    /\ pc = "import"
    /\ keyPresent \in BOOLEAN
    /\ modelArg \in ModelArgs
    /\ promptArg \in PromptArgs
    /\ messageArg \in MessageArgs
    /\ stream_mode \in BOOLEAN
    /\ fs \in [Paths -> FileStates]
    /\ clientAuth = FALSE
    /\ model = None
    /\ prompt = None
    /\ message = None
    /\ model_name = None
    /\ system_prompt = None
    /\ requests = << >>
    /\ completion = "none"
    /\ response = None
    /\ received = << >>
    /\ exc = None
    /\ console = << >>
    /\ exitCode = -1

\* The process ends with an exception nobody caught: the interpreter prints
\* a traceback and exits with code 1.
Crash(text) ==
    /\ console' = Append(console, Item("traceback", "", text))
    /\ exitCode' = 1
    /\ pc' = "exited"

\* ------------------------------------------------------------------------
\* Actions
\* ------------------------------------------------------------------------

\* Module import: client = Groq(api_key=os.environ.get("GROQ_API_KEY")).
\* With the variable set the client is constructed.  With it unset the
\* constructor receives None; its body is the vendor SDK's, so both of its
\* possible outcomes are kept: it raises (the released SDK refuses a missing
\* key) and the import dies outside any handler, or it returns a client
\* without a credential.
ConstructClient ==
    /\ pc = "import"
    /\ \/ /\ keyPresent
          /\ clientAuth' = TRUE
          /\ pc' = "parse"
          /\ UNCHANGED << console, exitCode >>
       \/ /\ ~keyPresent
          /\ clientAuth' = FALSE
          /\ pc' = "parse"
          /\ UNCHANGED << console, exitCode >>
       \/ /\ ~keyPresent
          /\ clientAuth' = FALSE
          /\ Crash(GroqErrorText)
    /\ UNCHANGED << inputs, model, prompt, message, model_name, system_prompt,
                    requests, completion, response, received, exc >>

\* chat() as a click command: the options given on the command line are
\* converted first; a --model or --prompt value matching no choice ends the
\* process with a usage error.  An omitted --message is then asked for.
ParseOptions ==
    /\ pc = "parse"
    /\ LET m == ChoiceConvert(get_models, OptionValue(modelArg, DEFAULT_MODEL))
           p == ChoiceConvert(get_prompts, OptionValue(promptArg, DEFAULT_PROMPT))
       IN  IF m = None \/ p = None
           THEN /\ console' = Append(console, Item("usage", "", "Invalid value"))
                /\ exitCode' = 2
                /\ pc' = "exited"
                /\ UNCHANGED << model, prompt, message >>
           ELSE \E typed \in IF messageArg = None THEN TypedMessages ELSE {messageArg} :
                  IF typed = Aborted
                  THEN /\ console' = Append(console, Item("usage", "", "Aborted!"))
                       /\ exitCode' = 1
                       /\ pc' = "exited"
                       /\ UNCHANGED << model, prompt, message >>
                  ELSE /\ model' = m
                       /\ prompt' = p
                       /\ message' = typed
                       /\ pc' = "body"
                       /\ UNCHANGED << console, exitCode >>
    /\ UNCHANGED << inputs, clientAuth, model_name, system_prompt, requests,
                    completion, response, received, exc >>

\* Variant of read_content: FileNotFoundError is not caught either.
read_content_NoCatch(file_path) ==
    IF fs[file_path] \in {Missing, Unreadable}
    THEN [raised |-> TRUE, value |-> ReadErrorText, warned |-> FALSE]
    ELSE [raised |-> FALSE, value |-> fs[file_path], warned |-> FALSE]

\* Variant of read_content: every read error is caught, not only
\* FileNotFoundError.
read_content_CatchAll(file_path) ==
    IF fs[file_path] \in {Missing, Unreadable}
    THEN [raised |-> FALSE, value |-> "", warned |-> TRUE]
    ELSE [raised |-> FALSE, value |-> fs[file_path], warned |-> FALSE]

\* read_content(file_path): the text, or "" and a warning when the file
\* does not exist; any other read error is not caught here.
\* Result: [raised, value, warned].
read_content(file_path) ==
    CASE fs[file_path] = Missing ->
            [raised |-> FALSE, value |-> "", warned |-> TRUE]
      [] fs[file_path] = Unreadable ->
            [raised |-> TRUE, value |-> ReadErrorText, warned |-> FALSE]
      [] OTHER ->
            [raised |-> FALSE, value |-> fs[file_path], warned |-> FALSE]

\* First statements of the try block: resolve the model, load the prompt.
\* A table lookup with a key the table lacks raises KeyError.
LoadPrompt ==
    /\ pc = "body"
    /\ IF model \notin DOMAIN MODEL_ALIASES
       THEN /\ exc' = KeyErrorText
            /\ pc' = "handler"
            /\ UNCHANGED << model_name, system_prompt, console >>
       ELSE
       /\ model_name' = MODEL_ALIASES[model]
       /\ IF prompt \notin DOMAIN PATH_ALIASES
          THEN /\ exc' = KeyErrorText
               /\ pc' = "handler"
               /\ UNCHANGED << system_prompt, console >>
          ELSE
          LET r == read_content(PATH_ALIASES[prompt])
          IN  /\ console' = IF r.warned
                            THEN Append(console,
                                   Item("warning", "", PATH_ALIASES[prompt]))
                            ELSE console
              /\ IF r.raised
                 THEN /\ exc' = r.value
                      /\ pc' = "handler"
                      /\ UNCHANGED system_prompt
                 ELSE /\ system_prompt' = OrEmpty(r.value)
                      /\ pc' = "call"
                      /\ UNCHANGED exc
    /\ UNCHANGED << inputs, clientAuth, model, prompt, message, requests,
                    completion, response, received, exitCode >>

\* The request chat() builds.
ChatRequest ==
    [system |-> system_prompt, user |-> message, model |-> model_name,
     stream |-> stream_mode]

\* Variant of Create: a failed call is issued once more before giving up.
Create_Retry ==
    /\ pc = "call"
    /\ requests' = Append(requests, ChatRequest)
    /\ \/ \E e \in (IF clientAuth THEN ApiErrorTexts ELSE {AuthErrorText}) :
            IF requests = << >>
            THEN /\ pc' = "call"
                 /\ UNCHANGED << completion, response, exc >>
            ELSE /\ exc' = e
                 /\ pc' = "handler"
                 /\ UNCHANGED << completion, response >>
       \/ /\ clientAuth
          /\ stream_mode
          /\ completion' = "stream"
          /\ pc' = "header"
          /\ UNCHANGED << response, exc >>
       \/ /\ clientAuth
          /\ ~stream_mode
          /\ completion' = "object"
          /\ \E c \in Contents \cup {NoChoices} : response' = c
          /\ pc' = "panel"
          /\ UNCHANGED exc
    /\ UNCHANGED << inputs, clientAuth, model, prompt, message, model_name,
                    system_prompt, received, console, exitCode >>

\* client.chat.completions.create(...): the request goes out; the call
\* raises, or returns a response object / a stream.  A client without a
\* credential is always refused.
Create ==
    /\ pc = "call"
    /\ requests' = Append(requests, ChatRequest)
    /\ \/ \E e \in (IF clientAuth THEN ApiErrorTexts ELSE {AuthErrorText}) :
            /\ exc' = e
            /\ pc' = "handler"
            /\ UNCHANGED << completion, response >>
       \/ /\ clientAuth
          /\ stream_mode
          /\ completion' = "stream"
          /\ pc' = "header"
          /\ UNCHANGED << response, exc >>
       \/ /\ clientAuth
          /\ ~stream_mode
          /\ completion' = "object"
          /\ \E c \in Contents \cup {NoChoices} : response' = c
          /\ pc' = "panel"
          /\ UNCHANGED exc
    /\ UNCHANGED << inputs, clientAuth, model, prompt, message, model_name,
                    system_prompt, received, console, exitCode >>

\* Variant of PrintPanel: the panel is titled with the alias and shows
\* absent content as it is.
PrintPanel_AliasTitle ==
    /\ pc = "panel"
    /\ IF response = NoChoices
       THEN /\ exc' = IndexErrorText
            /\ pc' = "handler"
            /\ UNCHANGED console
       ELSE /\ console' = Append(console, Item("panel", model, response))
            /\ pc' = "return"
            /\ UNCHANGED exc
    /\ UNCHANGED << inputs, clientAuth, model, prompt, message, model_name,
                    system_prompt, requests, completion, response, received,
                    exitCode >>

\* Non-streamed branch: one panel around Markdown(response).
PrintPanel ==
    /\ pc = "panel"
    /\ IF response = NoChoices
       THEN /\ exc' = IndexErrorText
            /\ pc' = "handler"
            /\ UNCHANGED console
       ELSE /\ console' = Append(console,
                 Item("panel", model_name, OrEmpty(response)))
            /\ pc' = "return"
            /\ UNCHANGED exc
    /\ UNCHANGED << inputs, clientAuth, model, prompt, message, model_name,
                    system_prompt, requests, completion, response, received,
                    exitCode >>

\* Streamed branch: the header line naming the model.
PrintHeader ==
    /\ pc = "header"
    /\ console' = Append(console, Item("header", "", model_name))
    /\ pc' = "stream"
    /\ UNCHANGED << inputs, clientAuth, model, prompt, message, model_name,
                    system_prompt, requests, completion, response, received,
                    exc, exitCode >>

\* console.print(response, end="") of one fragment: what it leaves on the
\* terminal, and whether it raised.
PrintFragment(text) == RenderMarkup(text)

\* One turn of `for chunk in chat_completion`: the stream ends, fails, or
\* delivers a chunk whose content is printed at once.
NextChunk ==
    /\ pc = "stream"
    /\ \/ /\ pc' = "return"
          /\ UNCHANGED << received, exc, console >>
       \/ \E e \in ApiErrorTexts :
            /\ exc' = e
            /\ pc' = "handler"
            /\ UNCHANGED << received, console >>
       \/ /\ Len(received) < MaxFrags
          /\ \E c \in Contents \cup {NoChoices} :
               IF c = NoChoices
               THEN /\ exc' = IndexErrorText
                    /\ pc' = "handler"
                    /\ UNCHANGED << received, console >>
               ELSE /\ received' = Append(received, c)
                    /\ LET r == PrintFragment(OrEmpty(c))
                       IN  IF r.ok
                           THEN /\ console' = Append(console, Item("text", "", r.text))
                                /\ pc' = "stream"
                                /\ UNCHANGED exc
                           ELSE /\ exc' = r.text
                                /\ pc' = "handler"
                                /\ UNCHANGED console
    /\ UNCHANGED << inputs, clientAuth, model, prompt, message, model_name,
                    system_prompt, requests, completion, response, exitCode >>

\* console.print(Panel(str(e), title="[red]Error[/red]")): what rendering
\* the panel's text does.
ErrorPanel(text) == RenderMarkup(text)

\* except Exception as e: the error panel.  An exception raised while the
\* panel is rendered leaves chat() and the process uncaught.
Handler ==
    /\ pc = "handler"
    /\ LET r == ErrorPanel(exc)
       IN  IF r.ok
           THEN /\ console' = Append(console, Item("errpanel", "Error", r.text))
                /\ pc' = "return"
                /\ UNCHANGED exitCode
           ELSE Crash(r.text)
    /\ UNCHANGED << inputs, clientAuth, model, prompt, message, model_name,
                    system_prompt, requests, completion, response, received,
                    exc >>

\* chat() returned: click's standalone main exits with code 0.
Return ==
    /\ pc = "return"
    /\ exitCode' = 0
    /\ pc' = "exited"
    /\ UNCHANGED << inputs, clientAuth, model, prompt, message, model_name,
                    system_prompt, requests, completion, response, received,
                    exc, console >>

Next ==
    \/ ConstructClient
    \/ ParseOptions
    \/ LoadPrompt
    \/ Create
    \/ PrintPanel
    \/ PrintHeader
    \/ NextChunk
    \/ Handler
    \/ Return

Spec == Init /\ [][Next]_vars

TypeOK ==
    /\ pc \in {"import", "parse", "body", "call", "panel", "header", "stream",
               "handler", "return", "exited"}
    /\ exitCode \in {-1, 0, 1, 2}
    /\ Len(requests) <= 1
    /\ Len(received) <= MaxFrags

\* ------------------------------------------------------------------------
\* Derived views of a state
\* ------------------------------------------------------------------------

\* chat()'s body has been entered (the options were accepted).
Entered == model # None

\* The statements loading the prompt have run.
PastLoad ==
    \/ pc \in {"call", "panel", "header", "stream", "handler", "return"}
    \/ pc = "exited" /\ Entered

\* State on disk of the file the selected prompt alias names.
SelectedFileIs(st) ==
    /\ prompt \in DOMAIN PATH_ALIASES
    /\ fs[PATH_ALIASES[prompt]] = st

\* The items of one kind, in the order they were written.
ItemsOf(kind) == SelectSeq(console, LAMBDA it : it.kind = kind)

\* The bodies of the items of one kind, in the order they were written.
BodiesOf(kind) == [i \in DOMAIN ItemsOf(kind) |-> ItemsOf(kind)[i].body]

\* The contents received so far, as the text they stand for.
ReceivedText == [i \in DOMAIN received |-> OrEmpty(received[i])]

\* The terminal without the prompt loader's warning.
Output == SelectSeq(console, LAMBDA it : it.kind # "warning")

\* An option value matches some key of a table when case is ignored.
Matches(keys, value) == \E k \in keys : Lower(k) = Lower(value)

\* ------------------------------------------------------------------------
\* Claims
\* ------------------------------------------------------------------------

\* C1: whenever the completion call raised (the request went out and
\* nothing was returned), the finished process has rendered exactly one
\* error panel, has exit code 0, and no exception escaped uncaught.
C1_CreateRaisesOnePanelExitZero ==
    (pc = "exited" /\ requests # << >> /\ completion = "none")
        => /\ Count(console, "errpanel") = 1
           /\ Count(console, "traceback") = 0
           /\ exitCode = 0

\* C2: in streamed mode, while no error has occurred, the text printed
\* after the header is exactly the concatenation, in arrival order, of the
\* contents of the fragments received (empty or absent content adding
\* nothing).
C2_StreamPrintsConcatenation ==
    (completion = "stream" /\ pc \in {"stream", "return", "exited"} /\ exc = None)
        => NonEmptyParts(BodiesOf("text")) = NonEmptyParts(ReceivedText)

\* C3: when the selected prompt file does not exist, the warning is shown
\* once, the system prompt is the empty string, the completion request is
\* issued with an empty system message, and neither the exception handled
\* nor any error panel comes from the missing file.
C3_MissingFileEmptyPromptProceeds ==
    (PastLoad /\ SelectedFileIs(Missing))
        => /\ Count(console, "warning") = 1
           /\ console[1] = Item("warning", "", PATH_ALIASES[prompt])
           /\ system_prompt = ""
           /\ pc # "call" => /\ Len(requests) = 1
                             /\ requests[1].system = ""
           /\ exc \notin {ReadErrorText, KeyErrorText}
           /\ \A i \in DOMAIN console :
                console[i].kind = "errpanel" =>
                    /\ requests # << >>
                    /\ console[i].body \notin {ReadErrorText, KeyErrorText}

C3_Witness ==
    /\ pc = "exited"
    /\ Entered
    /\ SelectedFileIs(Missing)
    /\ Count(console, "warning") = 1
    /\ Len(requests) = 1
    /\ requests[1].system = ""
    /\ Count(console, "errpanel") = 0
    /\ exitCode = 0

\* C4 as stated: a --model or --prompt value that is not a key of its table
\* never leads to a completion request.
C4_NonKeyNeverRequests ==
    (\/ OptionValue(modelArg, DEFAULT_MODEL) \notin DOMAIN MODEL_ALIASES
     \/ OptionValue(promptArg, DEFAULT_PROMPT) \notin DOMAIN PATH_ALIASES)
        => requests = << >>

\* C4 amended: a --model or --prompt value is rejected at option parsing
\* (usage error, exit code 2, chat() never entered, no request) exactly when
\* it matches no key of its table with case ignored; whenever a request is
\* issued, the aliases chat() received are keys of their tables, they are
\* the keys the given values match with case ignored, and the model sent is
\* the table's value for the model key.
C4_RejectedIffNoCaseInsensitiveMatch ==
    LET mv == OptionValue(modelArg, DEFAULT_MODEL)
        pv == OptionValue(promptArg, DEFAULT_PROMPT)
        accepted == Matches(DOMAIN MODEL_ALIASES, mv) /\ Matches(DOMAIN PATH_ALIASES, pv)
    IN  /\ ~accepted =>
            /\ pc \in {"import", "parse", "exited"}
            /\ ~Entered
            /\ requests = << >>
            /\ (pc = "exited" /\ Count(console, "traceback") = 0) =>
                    /\ exitCode = 2
                    /\ console = << Item("usage", "", "Invalid value") >>
        /\ (accepted /\ pc = "exited") => exitCode # 2
        /\ Entered =>
            /\ accepted
            /\ model \in DOMAIN MODEL_ALIASES
            /\ prompt \in DOMAIN PATH_ALIASES
            /\ Lower(model) = Lower(mv)
            /\ Lower(prompt) = Lower(pv)
        /\ requests # << >> =>
            /\ Entered
            /\ requests[1].model = MODEL_ALIASES[model]

C4_Witness ==
    /\ modelArg = "L3-70"
    /\ promptArg = "DEF"
    /\ Len(requests) = 1
    /\ model = "l3-70"
    /\ requests[1].model = "llama3-70b-8192"

\* C5: every finished execution has exit code 0.
C5_AlwaysExitsZero ==
    pc = "exited" => exitCode = 0

\* C6: with the API key absent the process is never ended by an uncaught
\* exception, and once options are accepted the failure is shown as the
\* one error panel of an attempted completion call.
C6_MissingKeyReportedByPanel ==
    (~keyPresent /\ pc = "exited")
        => /\ Count(console, "traceback") = 0
           /\ (Entered /\ ~SelectedFileIs(Unreadable)) =>
                /\ Len(requests) = 1
                /\ Count(console, "errpanel") = 1

\* C7 as stated: whether the selected prompt file is missing or unreadable,
\* a warning is shown, the system prompt is empty and the completion
\* request is issued with an empty system message.
C7_AnyReadFailureDegrades ==
    (pc = "exited" /\ Entered
        /\ (SelectedFileIs(Missing) \/ SelectedFileIs(Unreadable)))
        => /\ Count(console, "warning") = 1
           /\ Len(requests) = 1
           /\ requests[1].system = ""

\* C7 amended: only a missing file degrades (warning, empty system prompt,
\* the flow goes on to the completion call).  A file that exists but cannot
\* be read gives no warning and no system prompt: the read error goes to
\* chat()'s handler as the exception being handled, no completion request
\* is issued, and the execution ends with that error's panel.
C7_OnlyMissingFileDegrades ==
    /\ (PastLoad /\ SelectedFileIs(Missing)) =>
            /\ Count(console, "warning") = 1
            /\ system_prompt = ""
            /\ exc # ReadErrorText
            /\ pc \in {"call", "handler", "panel", "header", "stream",
                       "return", "exited"}
            /\ pc # "call" => Len(requests) = 1
    /\ (PastLoad /\ SelectedFileIs(Unreadable)) =>
            /\ Count(console, "warning") = 0
            /\ system_prompt = None
            /\ exc = ReadErrorText
            /\ requests = << >>
            /\ pc \in {"handler", "return", "exited"}
            /\ pc # "handler" =>
                    console = << Item("errpanel", "Error", ReadErrorText) >>
            /\ pc = "exited" => exitCode = 0

C7_Witness ==
    /\ pc = "exited"
    /\ Entered
    /\ SelectedFileIs(Unreadable)
    /\ requests = << >>
    /\ Count(console, "errpanel") = 1

\* C8: the output shape follows the stream flag.  Without streaming no
\* header and no fragment is ever printed, and once a response with content
\* (possibly absent) has been presented there is exactly one response
\* panel, titled with the table's identifier for the model alias and
\* holding the returned text, absent content as the empty string.  With
\* streaming no response panel is ever rendered, the header naming the
\* model is printed exactly once after the call returned, and every
\* fragment printed comes after it.
C8_OneShapePerStreamFlag ==
    /\ ~stream_mode =>
            /\ Count(console, "header") = 0
            /\ Count(console, "text") = 0
            /\ Count(console, "panel") <= 1
            /\ Count(console, "panel") = 1 => pc \in {"return", "exited"}
            /\ (pc \in {"return", "exited"} /\ completion = "object"
                    /\ response # NoChoices) =>
                    ItemsOf("panel") =
                        << Item("panel", MODEL_ALIASES[model], OrEmpty(response)) >>
    /\ stream_mode =>
            /\ Count(console, "panel") = 0
            /\ Count(console, "header") <= 1
            /\ (completion = "stream" /\ pc # "header") =>
                    ItemsOf("header") =
                        << Item("header", "", MODEL_ALIASES[model]) >>
            /\ \A i \in DOMAIN console :
                    console[i].kind = "text" =>
                        \E j \in 1..(i - 1) : console[j].kind = "header"

C8_Witness ==
    /\ pc = "exited"
    /\ ~stream_mode
    /\ completion = "object"
    /\ response = None
    /\ model = "l3-8"
    /\ ItemsOf("panel") = << Item("panel", "llama3-8b-8192", "") >>

\* C9: when the stream fails after k fragments, the finished process shows
\* the header, then exactly those k fragments in arrival order, then one
\* error panel, and has exit code 0.
C9_StreamFailureKeepsOutput ==
    (pc = "exited" /\ completion = "stream"
        /\ exc \in ApiErrorTexts \cup {IndexErrorText})
        => /\ Len(Output) = Len(received) + 2
           /\ Output[1].kind = "header"
           /\ Output[Len(Output)].kind = "errpanel"
           /\ BodiesOf("text") = ReceivedText
           /\ Count(console, "errpanel") = 1
           /\ exitCode = 0

\* C10: prompt load, then completion call, then presentation.  At most one
\* request is ever issued (none is added after a failure); when it is
\* issued the prompt has been loaded and is the system message sent, and
\* the missing-file warning, if any, is already the first thing on the
\* terminal; no header, fragment, response panel or error panel of a call
\* is on the terminal before the request is issued.
C10_LoadThenCallThenPresent ==
    /\ Len(requests) <= 1
    /\ requests # << >> =>
            /\ system_prompt # None
            /\ requests[1].system = system_prompt
            /\ requests[1].user = message
            /\ SelectedFileIs(Missing) =>
                    console # << >> /\ console[1].kind = "warning"
    /\ requests = << >> =>
            /\ Count(console, "header") = 0
            /\ Count(console, "text") = 0
            /\ Count(console, "panel") = 0
            /\ completion = "none"
            /\ pc \notin {"panel", "header", "stream"}
    /\ \A i \in DOMAIN console :
            console[i].kind = "warning" => i = 1
    /\ pc = "call" => requests = << >> /\ exc = None

C10_Witness ==
    /\ pc = "exited"
    /\ Len(requests) = 1
    /\ exc \in ApiErrorTexts
    /\ SelectedFileIs(Missing)
    /\ console[1].kind = "warning"
    /\ Count(console, "errpanel") = 1
    /\ exitCode = 0
====
